---- MODULE Spec2Model ----
(***************************************************************************)
(* TaskBOT: the task-generation flow (utils/generate_tasks.py) and the     *)
(* task-tree persister (utils/insert_tasks_to_db.py).                      *)
(*                                                                         *)
(* Python values are records tagged by their type.  A dict is a function   *)
(* from its keys to values, so "key in task" is membership in DOMAIN.      *)
(* The result of a call is Ret(v) (it returned v) or Raise(e) (exception   *)
(* e left it).                                                             *)
(*                                                                         *)
(* The store and the AI service are outside the repository.  Of the calls  *)
(* on the database handle, connect, cursor, execute, commit, rollback and  *)
(* session.close may raise; a call raises because the statement is         *)
(* refused, which leaves the connection up, or because the connection is   *)
(* lost, after which the server has dropped the open transaction.          *)
(* cursor.close is local and does not raise.  One call of generate_tasks   *)
(* reads one date from datetime.now(): it does not run across midnight.    *)
(*                                                                         *)
(* The voice flow (cogs/voice.py) is one cog object serving every guild.   *)
(* Its handlers are coroutines of one event loop: a handler runs alone     *)
(* from one await that suspends it to the next.                            *)
(***************************************************************************)
EXTENDS Integers, Sequences, FiniteSets, TLC

VARIABLES
    entry,               \* the public operation the caller invoked
    response,            \* what the AI call does (process_meeting_transcript)
    today,               \* datetime.now(), as a proleptic Gregorian ordinal
    portfolio,           \* the portfolio_id argument of the call
    tasks,               \* the forest handed to insert_tasks_to_db_direct
    pc,                  \* position in the running operation
    stack,               \* the frames of the for-loops of insert_task
    top_level_task_ids,  \* insert_tasks_to_db_direct's list of root ids
    connAlive,           \* the connection to the store is still up
    cursorOpen,          \* connection.cursor() was obtained and not closed
    txn,                 \* rows inserted in the open transaction
    committed,           \* rows of the tasks table that are committed
    nextId,              \* the next value of the task_id sequence
    events,              \* every call made on the database handle, in order
    idOf,                \* path of a node -> the task_id its insert returned
    out,                 \* how insert_tasks_to_db_direct is about to end
    result,              \* how the operation the caller invoked ended
    self_meeting_name,   \* Voice.meeting_name, one field of the one cog
    self_portfolio_id,   \* Voice.portfolio_id, one field of the one cog
    connections,         \* guild id -> the recording of its voice client
    voice_clients,       \* the guilds the bot has a voice client in
    record_calls,        \* guild -> the record_meet handler suspended there
    invoked,             \* how many record_meet commands were invoked
    recordings,          \* every recording started, with its own command
    files,               \* the combined audio files exported, in order
    meetings_records     \* the rows of the table Meetings Records, in order

voiceVars == <<self_meeting_name, self_portfolio_id, connections, voice_clients,
               record_calls, invoked, recordings, files, meetings_records>>

taskVars == <<entry, response, today, portfolio, tasks, pc, stack, top_level_task_ids,
              connAlive, cursorOpen, txn, committed, nextId, events, idOf, out,
              result>>

vars == <<entry, response, today, portfolio, tasks, pc, stack, top_level_task_ids,
          connAlive, cursorOpen, txn, committed, nextId, events, idOf, out,
          result, voiceVars>>

(***************************************************************************)
(* Python values                                                           *)
(***************************************************************************)
None == [t |-> "null"]
Str(s) == [t |-> "str", s |-> s]
PyInt(n) == [t |-> "int", n |-> n]
List(xs) == [t |-> "list", items |-> xs]
Dict(d) == [t |-> "dict", d |-> d]

Ret(v) == [k |-> "return", v |-> v]
Raise(e) == [k |-> "raise", e |-> e]
Running == [k |-> "running"]

\* task[key]: KeyError when the key is missing, TypeError on a non-dict
Subscript(task, key) ==
    IF task.t # "dict" THEN Raise("TypeError")
    ELSE IF key \notin DOMAIN task.d THEN Raise("KeyError")
    ELSE Ret(task.d[key])

\* task.get(key, default)
Get(task, key, default) ==
    IF key \in DOMAIN task.d THEN task.d[key] ELSE default

\* the list insert_task and process_task walk: task['subtasks'] when the key
\* is there and holds a list, nothing otherwise
SubtaskList(task) ==
    IF task.t = "dict" /\ "subtasks" \in DOMAIN task.d
       /\ task.d["subtasks"].t = "list"
    THEN task.d["subtasks"].items
    ELSE <<>>

RECURSIVE NodeAt(_, _)
\* the node a path of 1-based positions leads to in a list of tasks
NodeAt(items, path) ==
    IF Len(path) = 1 THEN items[path[1]]
    ELSE NodeAt(SubtaskList(items[path[1]]), Tail(path))

\* the tasks a for-loop of the persister iterates: the forest for the
\* top-level loop (path <<>>), the subtasks of a node otherwise
Children(path) ==
    IF path = <<>> THEN tasks.items ELSE SubtaskList(NodeAt(tasks.items, path))

(***************************************************************************)
(* Text.  A str is a sequence of one-character strings.  The capital       *)
(* letters of ObjectLetters abbreviate JSON object literals (which hold no *)
(* back tick and no line break); the response says which object each       *)
(* stands for.  Indices are Python's: 0-based, -1 for "not found".         *)
(***************************************************************************)
Text(c) == [t |-> "text", c |-> c]

Whitespace == {" ", "\n"}
\* the back-tick character (a TLA+ string cannot hold it)
Backtick == "bq"
Fence == <<Backtick, Backtick, Backtick>>
FenceJson == Fence \o <<"j", "s", "o", "n">>

Min(S) == CHOOSE x \in S : \A y \in S : x <= y
Max(S) == CHOOSE x \in S : \A y \in S : x >= y

\* s[a:b] for a, b in Python's convention
Slice(s, a, b) ==
    LET n == Len(s)
        norm(i) == IF i < 0 THEN Max({0, i + n}) ELSE Min({i, n})
    IN  SubSeq(s, norm(a) + 1, norm(b))

\* s.strip()
Strip(s) ==
    LET keep == { i \in 1..Len(s) : s[i] \notin Whitespace }
    IN  IF keep = {} THEN <<>> ELSE SubSeq(s, Min(keep), Max(keep))

\* s.startswith(p), s.endswith(p)
StartsWith(s, p) == Len(s) >= Len(p) /\ SubSeq(s, 1, Len(p)) = p
EndsWith(s, p) == Len(s) >= Len(p) /\ SubSeq(s, Len(s) - Len(p) + 1, Len(s)) = p

\* the 0-based positions at which p occurs in s
Occurrences(s, p) ==
    { i \in 0..(Len(s) - Len(p)) : SubSeq(s, i + 1, i + Len(p)) = p }

\* s.find(p), s.rfind(p)
Find(s, p) == IF Occurrences(s, p) = {} THEN -1 ELSE Min(Occurrences(s, p))
RFind(s, p) == IF Occurrences(s, p) = {} THEN -1 ELSE Max(Occurrences(s, p))

\* lines 148-154: strip the text and remove markdown code block markers
CleanUp(json_text) ==
    LET s == Strip(json_text)
    IN  IF StartsWith(s, Fence) /\ EndsWith(s, Fence)
        THEN Strip(Slice(s, Find(s, <<"\n">>) + 1, RFind(s, Fence)))
        ELSE IF StartsWith(s, FenceJson)
        THEN Strip(Slice(s, 7, RFind(s, Fence)))
        ELSE s

(***************************************************************************)
(* json.loads over the characters [ ] , whitespace, the digit 7 and the    *)
(* object letters; every other character is not JSON.                      *)
(***************************************************************************)
NoParse == [ok |-> FALSE, v |-> None, next |-> 0]
Parsed(v, next) == [ok |-> TRUE, v |-> v, next |-> next]

\* the first position from i on that holds no whitespace (Len(s)+1: none)
SkipWs(s, i) == Min({ j \in i..Len(s) : s[j] \notin Whitespace } \cup {Len(s) + 1})

RECURSIVE ParseValue(_, _, _)
RECURSIVE ParseItems(_, _, _, _)
\* the JSON value that starts at position i of s
ParseValue(s, i, objects) ==
    IF i > Len(s) THEN NoParse
    ELSE IF s[i] \in DOMAIN objects THEN Parsed(objects[s[i]], i + 1)
    ELSE IF s[i] = "7" THEN Parsed(PyInt(7), i + 1)
    ELSE IF s[i] = "["
    THEN LET j == SkipWs(s, i + 1)
         IN  IF j <= Len(s) /\ s[j] = "]" THEN Parsed(List(<<>>), j + 1)
             ELSE ParseItems(s, j, <<>>, objects)
    ELSE NoParse

\* the rest of a JSON array whose items so far are acc
ParseItems(s, i, acc, objects) ==
    LET r == ParseValue(s, i, objects)
        j == SkipWs(s, r.next)
    IN  IF ~r.ok \/ j > Len(s) THEN NoParse
        ELSE IF s[j] = "," THEN ParseItems(s, SkipWs(s, j + 1), Append(acc, r.v), objects)
        ELSE IF s[j] = "]" THEN Parsed(List(Append(acc, r.v)), j + 1)
        ELSE NoParse

\* line 157: json.loads(json_text)
Loads(s, objects) ==
    LET r == ParseValue(s, SkipWs(s, 1), objects)
    IN  IF r.ok /\ SkipWs(s, r.next) = Len(s) + 1 THEN Ret(r.v)
        ELSE Raise("JSONDecodeError")

(***************************************************************************)
(* Dates: datetime.now() is a proleptic Gregorian ordinal (1 = 0001-01-01) *)
(***************************************************************************)
\* date.weekday(): Monday is 0, Friday is 4
Weekday(ordinal) == (ordinal + 6) % 7

DaysBeforeMonth == <<0, 31, 59, 90, 120, 151, 181, 212, 243, 273, 304, 334>>
DaysInMonth == <<31, 28, 31, 30, 31, 30, 31, 31, 30, 31, 30, 31>>

\* strftime("%Y-%m-%d"): the year, month and day of an ordinal, as the
\* standard library computes them; the str is the record Iso(<<y, m, d>>)
Iso(ymd) == [t |-> "str", ymd |-> ymd]

Strftime(ordinal) ==
    LET n0 == ordinal - 1
        n400 == n0 \div 146097
        r400 == n0 % 146097
        n100 == r400 \div 36524
        r100 == r400 % 36524
        n4 == r100 \div 1461
        r4 == r100 % 1461
        n1 == r4 \div 365
        n == r4 % 365
        year == n400 * 400 + 1 + n100 * 100 + n4 * 4 + n1
        leapyear == n1 = 3 /\ (n4 # 24 \/ n100 = 3)
        leap(m) == IF m > 2 /\ leapyear THEN 1 ELSE 0
        month0 == (n + 50) \div 32
        preceding0 == DaysBeforeMonth[month0] + leap(month0)
        month == IF preceding0 > n THEN month0 - 1 ELSE month0
        preceding ==
            IF preceding0 > n
            THEN preceding0 - (DaysInMonth[month]
                               + (IF month = 2 /\ leapyear THEN 1 ELSE 0))
            ELSE preceding0
    IN  IF n1 = 4 \/ n100 = 4 THEN Iso(<<year - 1, 12, 31>>)
        ELSE Iso(<<year, month, n - preceding + 1>>)

(***************************************************************************)
(* generate_tasks(script, source_meeting_id, portfolio_id)                 *)
(***************************************************************************)
\* bool(v) for the values a portfolio_id takes
Truthy(v) == v # None /\ v # PyInt(0)

\* task.setdefault(key, default)
SetDefault(d, key, default) == IF key \in DOMAIN d THEN d ELSE d @@ (key :> default)

\* task[key] = value
SetItem(d, key, value) == (key :> value) @@ d

\* line 184: days_until_friday
days_until_friday_iso(now) == (4 - (Weekday(now) + 1)) % 7
days_until_friday(now) == (4 - Weekday(now)) % 7

\* lines 182-186: a relative deadline becomes a date
ResolveDeadline(d, now) ==
    IF d["deadline"] = Str("This week")
    THEN SetItem(d, "deadline", Strftime(now + days_until_friday(now)))
    ELSE d

\* lines 173-179: the basic and the optional fields of one task
FillFields(d, source_meeting_id, portfolio_id) ==
    LET d1 == SetItem(d, "source_meeting_id", source_meeting_id)
        d2 == IF Truthy(portfolio_id) THEN SetItem(d1, "portfolio_id", portfolio_id)
              ELSE d1
        d3 == SetDefault(d2, "deadline", None)
    IN  SetDefault(d3, "priority", Str("Medium"))

RECURSIVE process_task(_, _, _, _)
RECURSIVE ProcessSubtasks(_, _, _, _, _)
\* lines 171-193: process_task(task); assigning into a value that is no dict
\* raises TypeError
process_task(task, now, source_meeting_id, portfolio_id) ==
    IF task.t # "dict" THEN Raise("TypeError")
    ELSE LET d == ResolveDeadline(FillFields(task.d, source_meeting_id, portfolio_id), now)
         IN  IF "subtasks" \in DOMAIN d /\ d["subtasks"].t = "list"
             THEN LET subs == ProcessSubtasks(d["subtasks"].items, <<>>, now,
                                              source_meeting_id, portfolio_id)
                  IN  IF subs.k = "raise" THEN subs
                      ELSE Ret(Dict(SetItem(d, "subtasks", List(subs.v))))
             ELSE Ret(Dict(d))

\* lines 190-191: the loop over the subtasks, done being those processed
ProcessSubtasks(items, done, now, source_meeting_id, portfolio_id) ==
    IF items = <<>> THEN Ret(done)
    ELSE LET r == process_task(Head(items), now, source_meeting_id, portfolio_id)
         IN  IF r.k = "raise" THEN r
             ELSE ProcessSubtasks(Tail(items), Append(done, r.v), now,
                                  source_meeting_id, portfolio_id)

\* line 198: the test a top-level task must pass
IsValidTask(task) ==
    task.t = "dict" /\ "title" \in DOMAIN task.d /\ "description" \in DOMAIN task.d

RECURSIVE ProcessAll(_, _, _, _, _)
\* lines 196-204: the loop over the top-level tasks
ProcessAll(items, processed_tasks, now, source_meeting_id, portfolio_id) ==
    IF items = <<>> THEN Ret(List(processed_tasks))
    ELSE IF IsValidTask(Head(items))
    THEN LET r == process_task(Head(items), now, source_meeting_id, portfolio_id)
         IN  IF r.k = "raise" THEN r
             ELSE ProcessAll(Tail(items), Append(processed_tasks, r.v), now,
                             source_meeting_id, portfolio_id)
    ELSE ProcessAll(Tail(items), processed_tasks, now, source_meeting_id, portfolio_id)

\* lines 123-144: the completion text of the response.  Go(text) continues
\* the function; anything else ends it
Go(v) == [k |-> "go", v |-> v]

\* the response object has no attribute text
NoAttr == [t |-> "no_attr"]

ResponseText(resp) ==
    IF resp.text = NoAttr THEN Raise("AttributeError") ELSE Go(resp.text)

ExtractText(resp) ==
    LET tried == IF resp.content = "parts" THEN Go(resp.part_text)
                 ELSE IF resp.content = "no_attr" THEN Raise("AttributeError")
                 ELSE ResponseText(resp)
    IN  IF tried.k = "raise"
        THEN IF resp.text = NoAttr THEN Ret(List(<<>>)) ELSE Go(resp.text)
        ELSE tried

\* lines 161-168: the handlers of the parsing block return []
ParseHandlers(r) == IF r.k = "raise" THEN Ret(List(<<>>)) ELSE r

\* lines 146-168: the parsing block; None has no strip()
ParseText(json_text, objects) ==
    ParseHandlers(
        IF json_text = None THEN Raise("AttributeError")
        ELSE LET loaded == Loads(CleanUp(json_text.c), objects)
             IN  IF loaded.k = "raise" THEN loaded
                 ELSE IF loaded.v.t # "list" THEN Ret(List(<<>>))
                 ELSE Go(loaded.v))

\* lines 97-204: the body of the outer try
GenerateBody(resp, now, source_meeting_id, portfolio_id) ==
    IF resp.api = "no_key" THEN Ret(List(<<>>))
    ELSE IF resp.api = "raises" THEN Raise("APIError")
    ELSE IF resp.candidates # "one" THEN Ret(List(<<>>))
    ELSE LET json_text == ExtractText(resp)
         IN  IF json_text.k # "go" THEN json_text
             ELSE LET parsed == ParseText(json_text.v, resp.objects)
                  IN  IF parsed.k # "go" THEN parsed
                      ELSE ProcessAll(parsed.v.items, <<>>, now,
                                      source_meeting_id, portfolio_id)

\* lines 206-211: the handler of the outer try returns []
OuterHandlerReraises(r) == r
OuterHandler(r) == IF r.k = "raise" THEN Ret(List(<<>>)) ELSE r

\* lines 23-211
generate_tasks(resp, now, source_meeting_id, portfolio_id) ==
    OuterHandler(GenerateBody(resp, now, source_meeting_id, portfolio_id))

(***************************************************************************)
(* Inputs of a direct call of insert_tasks_to_db_direct(tasks, connection) *)
(***************************************************************************)
MaxNodes == 5

\* a task as the docstring of insert_tasks_to_db_direct describes it: title
\* and description, and its nested subtasks when it has any
PlainTask(subs) ==
    IF subs = <<>>
    THEN Dict([title |-> Str("t"), description |-> Str("d")])
    ELSE Dict([title |-> Str("t"), description |-> Str("d"),
               subtasks |-> List(subs)])

RECURSIVE ForestsOf(_)
\* every forest of exactly n plain tasks
ForestsOf(n) ==
    IF n = 0 THEN {<<>>}
    ELSE UNION { { <<PlainTask(subs)>> \o rest :
                     subs \in ForestsOf(a - 1), rest \in ForestsOf(n - a) } :
                 a \in 1..n }

RECURSIVE PathsOf(_)
\* the paths of all nodes of a list of tasks
PathsOf(items) ==
    UNION { { <<i>> } \cup { <<i>> \o p : p \in PathsOf(SubtaskList(items[i])) } :
            i \in 1..Len(items) }

\* a plain task with one thing changed
Variant(task, kind) ==
    CASE kind = "no_description" ->
           Dict([key \in DOMAIN task.d \ {"description"} |-> task.d[key]])
      [] kind = "no_title" ->
           Dict([key \in DOMAIN task.d \ {"title"} |-> task.d[key]])
      [] kind = "empty_title" -> Dict(SetItem(task.d, "title", Str("")))
      [] kind = "not_a_dict" -> Str("t")
      [] kind = "subtasks_null" -> Dict(SetItem(task.d, "subtasks", None))
      [] kind = "priority_null" -> Dict(SetItem(task.d, "priority", None))
      [] kind = "priority_high" -> Dict(SetItem(task.d, "priority", Str("High")))
      [] kind = "this_week" -> Dict(SetItem(task.d, "deadline", Str("This week")))
      [] kind = "iso_deadline" -> Dict(SetItem(task.d, "deadline", Iso(<<2025, 1, 31>>)))
      [] kind = "deadline_null" -> Dict(SetItem(task.d, "deadline", None))
      [] kind = "normalized" ->
           Dict(task.d @@ [deadline |-> None, priority |-> Str("High"),
                           source_meeting_id |-> PyInt(1),
                           portfolio_id |-> PyInt(101)])
      [] kind = "plain" -> task

\* what a caller may hand to insert_tasks_to_db_direct in place of a plain task
VariantKinds == {"no_description", "no_title", "not_a_dict", "subtasks_null",
                 "normalized"}

RECURSIVE ReplaceAt(_, _, _)
\* the list of tasks with the node at path replaced by a variant of it
ReplaceAt(items, path, kind) ==
    [items EXCEPT ![path[1]] =
        IF Len(path) = 1 THEN Variant(@, kind)
        ELSE Dict([@.d EXCEPT !["subtasks"] =
                      List(ReplaceAt(@.items, Tail(path), kind))])]

DirectForests ==
    LET plain == UNION { ForestsOf(n) : n \in 0..MaxNodes }
    IN  plain \cup UNION { { ReplaceAt(f, p, kind) :
                                p \in PathsOf(f), kind \in VariantKinds } :
                              f \in plain }

(***************************************************************************)
(* insert_tasks_to_db_direct                                               *)
(***************************************************************************)
Event(op, node, ok) == [op |-> op, node |-> node, ok |-> ok]

Top == stack[Len(stack)]

\* insert_tasks_to_db_direct ends with outcome o: a direct caller receives
\* it; process_meeting_transcript goes on to session.close() when the call
\* returned, and its handler turns an exception into the empty list
Finish(o) ==
    IF entry = "direct" THEN pc' = "done" /\ result' = o
    ELSE IF o.k = "raise" THEN pc' = "done" /\ result' = Ret(<<>>)
    ELSE pc' = "pmt_close" /\ result' = result

\* line 85: cursor = connection.cursor(), before the try
Cursor ==
    /\ pc = "cursor"
    /\ \/ /\ cursorOpen' = TRUE
          /\ stack' = << [path |-> <<>>, id |-> None, i |-> 1] >>
          /\ events' = Append(events, Event("cursor", <<>>, TRUE))
          /\ pc' = "loop"
          /\ UNCHANGED <<connAlive, out, result>>
       \/ /\ events' = Append(events, Event("cursor", <<>>, FALSE))
          /\ connAlive' = FALSE
          /\ out' = Raise("Error")
          /\ Finish(out')
          /\ UNCHANGED <<cursorOpen, stack>>
    /\ top_level_task_ids' = <<>>
    /\ UNCHANGED <<voiceVars, entry, response, today, portfolio, tasks, txn, committed, nextId, idOf>>

\* the task the innermost for-loop hands to insert_task next, and its path
NextTask == Children(Top.path)[Top.i]
NextPath == Top.path \o <<Top.i>>
HasNext == pc = "loop" /\ Top.i <= Len(Children(Top.path))

\* lines 90-95: the values insert_task reads from the task
FieldsOf(task) ==
    IF Subscript(task, "title").k = "raise" THEN Subscript(task, "title")
    ELSE IF Subscript(task, "description").k = "raise"
    THEN Subscript(task, "description")
    ELSE Ret([title |-> task.d["title"],
              description |-> task.d["description"],
              deadline |-> Get(task, "deadline", None),
              priority |-> Get(task, "priority", Str("Medium")),
              source_meeting_id |-> Get(task, "source_meeting_id", None),
              portfolio_id |-> Get(task, "portfolio_id", None)])

\* lines 99-105: the row the INSERT statement adds; RETURNING task_id gives
\* back the identifier the store assigned
NewRow(fields, task_id, parent_task_id) ==
    fields @@ [task_id |-> task_id, parent_task_id |-> parent_task_id]

\* line 109: the task is top-level
IsTopLevelAlways(parent_task_id) == TRUE
IsTopLevel(parent_task_id) == parent_task_id = None

\* line 115: the parent identifier insert_task hands to the insert of a subtask
SubtaskParentStale(task_id, parent_task_id) == parent_task_id
SubtaskParent(task_id, parent_task_id) == PyInt(task_id)

\* lines 113-115: insert_task calls itself for the subtasks before its caller's
\* for-loop goes on: the frame of the call goes on top of the frames
PushFrameBelow(frames, frame) == <<frame>> \o frames
PushFrame(frames, frame) == frames \o <<frame>>

\* lines 88-111: insert_task inserts the row, reads the assigned task_id and
\* records it when the task is top-level; line 113-115: then loops over the
\* subtasks
insert_task ==
    /\ HasNext
    /\ FieldsOf(NextTask).k = "return"
    /\ connAlive
    /\ LET row == NewRow(FieldsOf(NextTask).v, nextId, Top.id)
       IN  /\ txn' = Append(txn, row)
           /\ idOf' = idOf @@ (NextPath :> nextId)
           /\ top_level_task_ids' =
                 IF IsTopLevel(Top.id) THEN Append(top_level_task_ids, nextId)
                 ELSE top_level_task_ids
           /\ stack' = PushFrame([stack EXCEPT ![Len(stack)].i = @ + 1],
                                  [path |-> NextPath,
                                   id |-> SubtaskParent(nextId, Top.id),
                                   i |-> 1])
           /\ nextId' = nextId + 1
           /\ events' = Append(events, Event("execute", NextPath, TRUE))
    /\ UNCHANGED <<voiceVars, entry, response, today, portfolio, tasks, pc, connAlive, cursorOpen,
                   committed, out, result>>

\* lines 90-91: task['title'] or task['description'] raises
InsertTaskMalformed ==
    /\ HasNext
    /\ FieldsOf(NextTask).k = "raise"
    /\ pc' = "except"
    /\ UNCHANGED <<voiceVars, entry, response, today, portfolio, tasks, stack, top_level_task_ids,
                   connAlive, cursorOpen, txn, committed, nextId, events, idOf,
                   out, result>>

\* line 105: cursor.execute raises: the statement is refused (the connection
\* stays up) or the connection is lost (the server aborts the transaction)
InsertTaskFails ==
    /\ HasNext
    /\ FieldsOf(NextTask).k = "return"
    /\ connAlive
    /\ \/ UNCHANGED <<connAlive, txn>>
       \/ connAlive' = FALSE /\ txn' = <<>>
    /\ events' = Append(events, Event("execute", NextPath, FALSE))
    /\ pc' = "except"
    /\ UNCHANGED <<voiceVars, entry, response, today, portfolio, tasks, stack, top_level_task_ids,
                   cursorOpen, committed, nextId, idOf, out, result>>

\* lines 114-117 and 121-122: a for-loop is exhausted; insert_task returns,
\* or the top-level loop ends and the commit is next
ReturnTask ==
    /\ pc = "loop"
    /\ Top.i > Len(Children(Top.path))
    /\ stack' = SubSeq(stack, 1, Len(stack) - 1)
    /\ pc' = IF Len(stack) = 1 THEN "commit" ELSE "loop"
    /\ UNCHANGED <<voiceVars, entry, response, today, portfolio, tasks, top_level_task_ids, connAlive,
                   cursorOpen, txn, committed, nextId, events, idOf, out, result>>

\* lines 125-126: connection.commit(), then return top_level_task_ids
Commit ==
    /\ pc = "commit"
    /\ committed' = committed \o txn
    /\ txn' = <<>>
    /\ events' = Append(events, Event("commit", <<>>, TRUE))
    /\ out' = Ret(top_level_task_ids)
    /\ pc' = "finally"
    /\ UNCHANGED <<voiceVars, entry, response, today, portfolio, tasks, stack, top_level_task_ids,
                   connAlive, cursorOpen, nextId, idOf, result>>

\* line 125: connection.commit() raises: nothing of the transaction is kept
CommitFails ==
    /\ pc = "commit"
    /\ \/ UNCHANGED <<connAlive, txn>>
       \/ connAlive' = FALSE /\ txn' = <<>>
    /\ events' = Append(events, Event("commit", <<>>, FALSE))
    /\ pc' = "except"
    /\ UNCHANGED <<voiceVars, entry, response, today, portfolio, tasks, stack, top_level_task_ids,
                   cursorOpen, committed, nextId, idOf, out, result>>

\* lines 128-132: the handler rolls back and returns []
Rollback ==
    /\ pc = "except"
    /\ connAlive
    /\ txn' = <<>>
    /\ events' = Append(events, Event("rollback", <<>>, TRUE))
    /\ out' = Ret(<<>>)
    /\ pc' = "finally"
    /\ UNCHANGED <<voiceVars, entry, response, today, portfolio, tasks, stack, top_level_task_ids,
                   connAlive, cursorOpen, committed, nextId, idOf, result>>

\* line 130: connection.rollback() raises inside the handler (the connection
\* is gone): the exception leaves the function once the finally clause ran
RollbackFails ==
    /\ pc = "except"
    /\ connAlive' = FALSE
    /\ txn' = <<>>
    /\ events' = Append(events, Event("rollback", <<>>, FALSE))
    /\ out' = Raise("Error")
    /\ pc' = "finally"
    /\ UNCHANGED <<voiceVars, entry, response, today, portfolio, tasks, stack, top_level_task_ids,
                   cursorOpen, committed, nextId, idOf, result>>

\* lines 133-135: finally: cursor.close(); then the function ends
CloseCursor ==
    /\ pc = "finally"
    /\ cursorOpen' = FALSE
    /\ events' = Append(events, Event("close", <<>>, TRUE))
    /\ Finish(out)
    /\ UNCHANGED <<voiceVars, entry, response, today, portfolio, tasks, stack, top_level_task_ids,
                   connAlive, txn, committed, nextId, idOf, out>>

insert_tasks_to_db_direct ==
    \/ Cursor
    \/ insert_task
    \/ InsertTaskMalformed
    \/ InsertTaskFails
    \/ ReturnTask
    \/ Commit
    \/ CommitFails
    \/ Rollback
    \/ RollbackFails
    \/ CloseCursor

(***************************************************************************)
(* The cog of the voice flow: cogs/voice.py                                *)
(***************************************************************************)
Guilds == {"g1", "g2"}
MeetingNames == {"standup", "retro"}
\* channel.category of the voice channel the invoking user is in
Categories == {"events", "marketing"}
MaxCommands == 3

\* no record_meet handler is suspended in the guild
Idle == [pc |-> "idle"]

\* line 10 and lines 20-23: the module's dictionary and the cog's fields
InitCog ==
    /\ self_meeting_name = ""
    /\ self_portfolio_id = ""
    /\ connections = <<>>
    /\ voice_clients = {}
    /\ record_calls = [g \in Guilds |-> Idle]
    /\ invoked = 0
    /\ recordings = <<>>
    /\ files = <<>>
    /\ meetings_records = <<>>

(***************************************************************************)
(* The state before a call                                                 *)
(***************************************************************************)
InitStore ==
    /\ stack = <<>>
    /\ top_level_task_ids = <<>>
    /\ connAlive = TRUE
    /\ cursorOpen = FALSE
    /\ txn = <<>>
    /\ committed = <<>>
    /\ nextId = 1
    /\ events = <<>>
    /\ idOf = <<>>
    /\ out = Running
    /\ result = Running

\* the caller invokes insert_tasks_to_db_direct
InitDirect ==
    /\ entry = "direct"
    /\ response = None
    /\ today = 0
    /\ portfolio = None
    /\ tasks \in { List(f) : f \in DirectForests }
    /\ pc = "cursor"
    /\ InitStore
    /\ InitCog

(***************************************************************************)
(* What the AI call may produce                                            *)
(***************************************************************************)
MaxTreeNodes == 3
FirstDay == 739246
DaySpan == 7

\* the processing dates: 2024-12-26 (a Thursday) and the days after it
Days == FirstDay..(FirstDay + DaySpan)

\* what the AI may put in place of a plain task object
AiKinds == {"no_description", "no_title", "empty_title", "not_a_dict",
            "subtasks_null", "priority_null", "priority_high", "this_week",
            "iso_deadline", "deadline_null"}

\* what it may put on every task object of its answer
BaseKinds == {"plain", "this_week", "priority_null"}

RECURSIVE VariantAll(_, _)
\* the list of tasks with every node changed the same way
VariantAll(items, kind) ==
    [i \in 1..Len(items) |->
        LET v == Variant(items[i], kind)
        IN  IF "subtasks" \in DOMAIN v.d
            THEN Dict(SetItem(v.d, "subtasks",
                              List(VariantAll(v.d["subtasks"].items, kind))))
            ELSE v]

\* the task objects the letter A may stand for: a tree of at most
\* MaxTreeNodes nodes, all of one base kind, at most one node changed further
AiTrees ==
    LET shapes == UNION { { <<PlainTask(subs)>> : subs \in ForestsOf(n - 1) } :
                          n \in 1..MaxTreeNodes }
        based == { VariantAll(f, kind) : f \in shapes, kind \in BaseKinds }
    IN  UNION { { f[1] } \cup { ReplaceAt(f, p, kind)[1] :
                                 p \in PathsOf(f), kind \in AiKinds } :
                f \in based }

PlainObjects == [A |-> PlainTask(<<>>), B |-> PlainTask(<<>>)]

\* JSON texts, and texts that are not JSON
JsonTexts == { <<"[", "]">>,
               <<"[", "A", "]">>,
               <<"[", "A", ",", "B", "]">>,
               <<"[", "A", ",", "\n", "B", "]">>,
               <<"[", "\n", " ", "A", "\n", "]">>,
               <<"[", "7", ",", "A", "]">>,
               <<"A">>,
               <<"7">> }
NotJsonTexts == { <<>>, <<"[", "A">>, <<"n", "o">>, <<"[", "A", ",", "]">> }

\* a completion that holds the text j
Wrap(form, j) ==
    CASE form = "bare" -> j
      [] form = "padded" -> <<" ", "\n">> \o j \o <<"\n">>
      [] form = "fenced" -> Fence \o <<"\n">> \o j \o <<"\n">> \o Fence
      [] form = "tagged" -> FenceJson \o <<"\n">> \o j \o <<"\n">> \o Fence
      [] form = "fenced_inline" -> Fence \o j \o Fence
      [] form = "tagged_inline" -> FenceJson \o j \o Fence
      [] form = "tagged_open" -> FenceJson \o <<"\n">> \o j
      [] form = "fenced_open" -> Fence \o <<"\n">> \o j
      [] form = "tagged_trailing" ->
           FenceJson \o <<"\n">> \o j \o <<"\n">> \o Fence \o <<"\n", "o", "n">>

Forms == {"bare", "padded", "fenced", "tagged", "fenced_inline", "tagged_inline",
          "tagged_open", "fenced_open", "tagged_trailing"}

\* a response whose first candidate holds the completion text c
Completion(c, objects) ==
    [api |-> "ok", candidates |-> "one", content |-> "parts",
     part_text |-> Text(c), text |-> Text(c), objects |-> objects,
     form |-> "bare", json |-> c]

\* the same, remembering the text j that the completion wraps
Wrapped(form, j, objects) ==
    [Completion(Wrap(form, j), objects) EXCEPT !.form = form, !.json = j]

AB == <<"[", "A", ",", "B", "]">>

\* responses that hold no usable completion, or hold it somewhere else
OddResponses ==
    LET r == Completion(AB, PlainObjects)
    IN  { [r EXCEPT !.api = "no_key"],
          [r EXCEPT !.api = "raises"],
          [r EXCEPT !.candidates = "none"],
          [r EXCEPT !.candidates = "empty"],
          [r EXCEPT !.part_text = None],
          [r EXCEPT !.content = "no_parts"],
          [r EXCEPT !.content = "none", !.text = None],
          [r EXCEPT !.content = "no_attr"],
          [r EXCEPT !.content = "no_attr", !.text = NoAttr],
          [r EXCEPT !.content = "none", !.text = NoAttr] }

TextResponses ==
    { Wrapped(form, j, PlainObjects) : form \in Forms, j \in JsonTexts \cup NotJsonTexts }

TreeResponses ==
    { Completion(AB, [A |-> a, B |-> PlainTask(<<>>)]) : a \in AiTrees }

Responses == OddResponses \cup TextResponses \cup TreeResponses

MeetingId == PyInt(1)
PortfolioIds == {None, PyInt(101)}

(***************************************************************************)
(* process_meeting_transcript(script, meeting_id, portfolio_id)            *)
(***************************************************************************)
\* line 249 (and a direct call of generate_tasks): the generation step
Generate ==
    /\ pc = "generate"
    /\ LET r == generate_tasks(response, today, MeetingId, portfolio)
       IN  IF entry = "generate" \/ r.k = "raise"
           THEN pc' = "done" /\ result' = r /\ tasks' = tasks
           ELSE pc' = "check" /\ result' = result /\ tasks' = r.v
    /\ UNCHANGED <<voiceVars, entry, response, today, portfolio, stack, top_level_task_ids,
                   connAlive, cursorOpen, txn, committed, nextId, events, idOf,
                   out>>

\* line 251: not tasks
NothingGeneratedIgnored(generated) == FALSE
NothingGenerated(generated) == generated.items = <<>>

\* lines 251-253: no tasks, no database
NoTasks ==
    /\ pc = "check"
    /\ NothingGenerated(tasks)
    /\ pc' = "done"
    /\ result' = Ret(<<>>)
    /\ UNCHANGED <<voiceVars, entry, response, today, portfolio, tasks, stack,
                   top_level_task_ids, connAlive, cursorOpen, txn, committed,
                   nextId, events, idOf, out>>

\* lines 262-264: POSTGRES_PASSWORD is not set
NoPassword ==
    /\ pc = "check"
    /\ ~NothingGenerated(tasks)
    /\ pc' = "done"
    /\ result' = Ret(<<>>)
    /\ UNCHANGED <<voiceVars, entry, response, today, portfolio, tasks, stack,
                   top_level_task_ids, connAlive, cursorOpen, txn, committed,
                   nextId, events, idOf, out>>

\* lines 268-282: connect, wrap the connection in a session and hand it to
\* insert_tasks_to_db_direct; a failure to connect is caught at line 295
Connect ==
    /\ pc = "check"
    /\ ~NothingGenerated(tasks)
    /\ \/ /\ events' = Append(events, Event("connect", <<>>, TRUE))
          /\ pc' = "cursor"
          /\ UNCHANGED <<connAlive, result>>
       \/ /\ events' = Append(events, Event("connect", <<>>, FALSE))
          /\ connAlive' = FALSE
          /\ pc' = "done"
          /\ result' = Ret(<<>>)
    /\ UNCHANGED <<voiceVars, entry, response, today, portfolio, tasks, stack,
                   top_level_task_ids, cursorOpen, txn, committed, nextId, idOf,
                   out>>

\* lines 285-293: session.close(), then return task_ids; the handler of the
\* inner try returns [] when close raises
CloseSession ==
    /\ pc = "pmt_close"
    /\ \/ /\ events' = Append(events, Event("session_close", <<>>, TRUE))
          /\ result' = out
       \/ /\ events' = Append(events, Event("session_close", <<>>, FALSE))
          /\ result' = Ret(<<>>)
    /\ pc' = "done"
    /\ UNCHANGED <<voiceVars, entry, response, today, portfolio, tasks, stack,
                   top_level_task_ids, connAlive, cursorOpen, txn, committed,
                   nextId, idOf, out>>

process_meeting_transcript ==
    \/ Generate
    \/ NoTasks
    \/ NoPassword
    \/ Connect
    \/ CloseSession

\* the caller invokes process_meeting_transcript; the persister does not
\* read the date, whose values SpecGenerate covers
InitTranscript ==
    /\ entry = "process_meeting_transcript"
    /\ response \in Responses
    /\ today = FirstDay
    /\ portfolio \in PortfolioIds
    /\ tasks = None
    /\ pc = "generate"
    /\ InitStore
    /\ InitCog

\* the caller invokes generate_tasks
InitGenerate ==
    /\ entry = "generate"
    /\ response \in Responses
    /\ today \in Days
    /\ portfolio \in PortfolioIds
    /\ tasks = None
    /\ pc = "generate"
    /\ InitStore
    /\ InitCog

Init == InitDirect \/ InitTranscript
Next == insert_tasks_to_db_direct \/ process_meeting_transcript
Spec == Init /\ [][Next]_vars

SpecGenerate == InitGenerate /\ [][Generate]_vars

(***************************************************************************)
(* The voice flow: cogs/voice.py                                           *)
(***************************************************************************)
\* line 55: f"meeting_{self.meeting_name}_{self.portfolio_id}.wav"
FileName(name, portfolio_id_field) ==
    <<"meeting_", name, "_", portfolio_id_field, ".wav">>

\* lines 89-98: record_meet by a user in a voice channel: the handler stores
\* the name and the category in the cog and is suspended at
\* await voice.channel.connect()
record(g, meeting_name, category) ==
    /\ pc = "voice"
    /\ UNCHANGED taskVars
    /\ invoked < MaxCommands
    /\ record_calls[g] = Idle
    /\ invoked' = invoked + 1
    /\ self_meeting_name' = meeting_name
    /\ self_portfolio_id' = category
    /\ record_calls' = [record_calls EXCEPT ![g] =
                           [pc |-> "connect", meeting_name |-> meeting_name,
                            category |-> category]]
    /\ UNCHANGED <<connections, voice_clients, recordings, files, meetings_records>>

\* lines 90-91: record_meet by a user in no voice channel:
\* interaction.user.voice is None and line 91 raises before the fields are set
RecordNotInVoice(g) ==
    /\ pc = "voice"
    /\ UNCHANGED taskVars
    /\ invoked < MaxCommands
    /\ record_calls[g] = Idle
    /\ invoked' = invoked + 1
    /\ UNCHANGED <<self_meeting_name, self_portfolio_id, connections, voice_clients,
                   record_calls, recordings, files, meetings_records>>

\* the recordings running in other guilds now overlap the one g starts
MarkOverlapped(g) ==
    [i \in DOMAIN recordings |->
        IF recordings[i].guild # g /\ recordings[i].state = "recording"
        THEN [recordings[i] EXCEPT !.overlapped = TRUE]
        ELSE recordings[i]]

\* lines 98-108: connect returns the voice client; it goes into connections
\* and starts recording with finished_callback as its callback
RecordConnected(g) ==
    /\ pc = "voice"
    /\ UNCHANGED taskVars
    /\ record_calls[g].pc = "connect"
    /\ g \notin voice_clients
    /\ voice_clients' = voice_clients \cup {g}
    /\ recordings' =
          Append(MarkOverlapped(g),
                 [guild |-> g,
                  meeting_name |-> record_calls[g].meeting_name,
                  category |-> record_calls[g].category,
                  state |-> "recording",
                  overlapped |-> \E i \in DOMAIN recordings :
                                    /\ recordings[i].guild # g
                                    /\ recordings[i].state = "recording"])
    /\ connections' = (g :> (Len(recordings) + 1)) @@ connections
    /\ record_calls' = [record_calls EXCEPT ![g] = Idle]
    /\ UNCHANGED <<self_meeting_name, self_portfolio_id, invoked, files,
                   meetings_records>>

\* line 98: connect raises (the bot already has a voice client in the guild,
\* or the connection fails): the handler ends
RecordConnectFails(g) ==
    /\ pc = "voice"
    /\ UNCHANGED taskVars
    /\ record_calls[g].pc = "connect"
    /\ record_calls' = [record_calls EXCEPT ![g] = Idle]
    /\ UNCHANGED <<self_meeting_name, self_portfolio_id, connections, voice_clients,
                   invoked, recordings, files, meetings_records>>

\* lines 111-118: stop_record: stop_recording() schedules finished_callback
\* and the guild leaves connections; without a recording it only replies
stop(g) ==
    /\ pc = "voice"
    /\ UNCHANGED taskVars
    /\ \/ /\ g \in DOMAIN connections
          /\ recordings' = [recordings EXCEPT ![connections[g]].state = "stopped"]
          /\ connections' = [h \in DOMAIN connections \ {g} |-> connections[h]]
       \/ /\ g \notin DOMAIN connections
          /\ UNCHANGED <<recordings, connections>>
    /\ UNCHANGED <<self_meeting_name, self_portfolio_id, voice_clients, record_calls,
                   invoked, files, meetings_records>>

\* lines 25-82: finished_callback of recording r.  Nothing suspends it between
\* line 26 and the insert of lines 74-82.  It ends without a file when there
\* is no audio (lines 46-48) or ffmpeg fails (line 37); otherwise it exports
\* the combined file under the name of line 55 and uploads the row of lines
\* 74-82, unless the upload raises (lines 85-86)
finished_callback(r) ==
    /\ pc = "voice"
    /\ UNCHANGED taskVars
    /\ recordings[r].state = "stopped"
    /\ recordings' = [recordings EXCEPT ![r].state = "finished"]
    /\ \/ UNCHANGED <<files, meetings_records>>
       \/ /\ files' = Append(files,
                [recording |-> r,
                 name |-> FileName(self_meeting_name, self_portfolio_id)])
          /\ \/ meetings_records' = Append(meetings_records,
                    [recording |-> r,
                     meeting_name |-> self_meeting_name,
                     portfolio_id |-> self_portfolio_id])
             \/ UNCHANGED meetings_records
    /\ UNCHANGED <<self_meeting_name, self_portfolio_id, connections, voice_clients,
                   record_calls, invoked>>

\* the bot is started with the cog loaded (lines 138-139)
InitVoice ==
    /\ entry = "voice"
    /\ response = None
    /\ today = 0
    /\ portfolio = None
    /\ tasks = None
    /\ pc = "voice"
    /\ InitStore
    /\ InitCog

NextVoice ==
    \/ \E g \in Guilds, meeting_name \in MeetingNames, category \in Categories :
          record(g, meeting_name, category)
    \/ \E g \in Guilds : RecordNotInVoice(g)
    \/ \E g \in Guilds : RecordConnected(g)
    \/ \E g \in Guilds : RecordConnectFails(g)
    \/ \E g \in Guilds : stop(g)
    \/ \E r \in DOMAIN recordings : finished_callback(r)

SpecVoice == InitVoice /\ [][NextVoice]_vars

(***************************************************************************)
(* Properties                                                              *)
(***************************************************************************)
\* the call op was made on the database handle and ended as ok says
Happened(op, ok) ==
    \E i \in 1..Len(events) : events[i].op = op /\ events[i].ok = ok

Parent(path) == SubSeq(path, 1, Len(path) - 1)

IdsOf(rows) == { rows[i].task_id : i \in 1..Len(rows) }

\* the transaction is all or nothing: the committed rows are the rows of
\* every node of the forest, or there are none
AllOrNothing ==
    pc = "done" =>
        \/ committed = <<>>
        \/ /\ DOMAIN idOf = PathsOf(tasks.items)
           /\ IdsOf(committed) = { idOf[p] : p \in DOMAIN idOf }

\* C1: when the insert of a node fails, insert_tasks_to_db_direct returns the
\* empty list and no row of the call is committed
C1_InsertFailureReturnsEmpty ==
    (entry = "direct" /\ pc = "done" /\ Happened("execute", FALSE))
        => (result = Ret(<<>>) /\ committed = <<>>)

\* C2: after a successful insert_tasks_to_db_direct every node has exactly
\* one committed row, whose parent_task_id is null for a top-level task and
\* the identifier assigned to the parent node's row for a subtask
C2_ParentLinks ==
    (pc = "done" /\ Happened("commit", TRUE)) =>
        /\ Len(committed) = Cardinality(DOMAIN idOf)
        /\ \A p \in DOMAIN idOf :
              \E i \in 1..Len(committed) :
                 /\ committed[i].task_id = idOf[p]
                 /\ committed[i].parent_task_id =
                       IF Len(p) = 1 THEN None ELSE PyInt(idOf[Parent(p)])

C2_Witness ==
    /\ entry = "direct" /\ pc = "done" /\ Happened("commit", TRUE)
    /\ \E p \in DOMAIN idOf : Len(p) = 3
    /\ \E p \in DOMAIN idOf : Len(p) = 2 /\ p[2] = 2

\* C3: on success insert_tasks_to_db_direct returns the identifiers of the
\* top-level tasks, one per top-level task and in their order, none of them
\* the identifier of a subtask, and every node of the forest has a row
C3_ReturnsRootIdsInOrder ==
    (pc = "done" /\ Happened("commit", TRUE)) =>
        /\ DOMAIN idOf = PathsOf(tasks.items)
        /\ out = Ret([i \in 1..Len(tasks.items) |-> idOf[<<i>>]])
        /\ \A p \in DOMAIN idOf :
              Len(p) > 1 => \A i \in 1..Len(out.v) : out.v[i] # idOf[p]
        /\ IdsOf(committed) = { idOf[p] : p \in DOMAIN idOf }
        /\ entry = "direct" => result = out

C3_Witness ==
    /\ entry = "direct" /\ pc = "done" /\ Happened("commit", TRUE)
    /\ Len(result.v) = 3
    /\ \E p \in DOMAIN idOf : Len(p) = 2 /\ p[1] = 2

\* what json.loads gives for the completion of a response
AiOutput(resp) == Loads(CleanUp(resp.part_text.c), resp.objects)

\* the response holds a completion that is a JSON list
HasTaskList(resp) ==
    /\ resp.api = "ok" /\ resp.candidates = "one" /\ resp.content = "parts"
    /\ resp.part_text # None
    /\ AiOutput(resp).k = "return"
    /\ AiOutput(resp).v.t = "list"

NonEmptyStr(v) == v.t = "str" /\ v # Str("")

\* a node with a non-empty title and a non-empty description
ValidNode(n) ==
    /\ n.t = "dict"
    /\ "title" \in DOMAIN n.d /\ NonEmptyStr(n.d["title"])
    /\ "description" \in DOMAIN n.d /\ NonEmptyStr(n.d["description"])

\* C4: every node of the AI output without a non-empty title or description
\* is dropped and nothing else is: when the database works, the persisted
\* rows are as many as the input nodes less the invalid ones
C4_InvalidNodesDropped ==
    ( /\ entry = "process_meeting_transcript" /\ pc = "done"
      /\ HasTaskList(response)
      /\ events # <<>> /\ ~Happened("connect", FALSE)
      /\ \A i \in 1..Len(events) : events[i].ok )
    => LET nodes == PathsOf(AiOutput(response).v.items)
           valid == { p \in nodes : ValidNode(NodeAt(AiOutput(response).v.items, p)) }
       IN  Len(committed) = Cardinality(valid)

\* C6: when the generation step yields no tasks, process_meeting_transcript
\* returns the empty list and no call is ever made on the database
C6_NoDatabaseAfterFailedGeneration ==
    (entry = "process_meeting_transcript" /\ pc # "generate"
     /\ tasks # None /\ tasks.items = <<>>)
        => /\ events = <<>>
           /\ pc \in {"check", "done"}
           /\ pc = "done" => result = Ret(<<>>)

C6_Witness ==
    /\ entry = "process_meeting_transcript" /\ pc = "done"
    /\ response.json = <<"n", "o">> /\ response.form = "bare"
    /\ tasks.items = <<>> /\ result = Ret(<<>>) /\ events = <<>>

\* C7: insert_tasks_to_db_direct and process_meeting_transcript always
\* return: a list of identifiers, which is empty when a call on the database
\* failed
C7_NoExceptionEscapes ==
    pc = "done" =>
        /\ result.k = "return"
        /\ (\E i \in 1..Len(events) : ~events[i].ok) => result.v = <<>>

\* a response the claim names: the AI call raises, there is no candidate, the
\* completion text is missing or empty, is not JSON, or is no JSON list
NonListTexts == { <<"A">>, <<"7">> }

BadResponse(resp) ==
    \/ resp.api = "raises"
    \/ resp.candidates # "one"
    \/ resp.part_text = None
    \/ resp.text \in {None, NoAttr}
    \/ resp.json \in NotJsonTexts \cup NonListTexts

\* C5: generate_tasks always returns a list, and returns the empty list for
\* every bad response
C5_FailsClosed ==
    pc = "done" =>
        /\ result.k = "return"
        /\ result.v.t = "list"
        /\ BadResponse(response) => result.v = List(<<>>)

C5_Witness ==
    /\ pc = "done" /\ response.api = "raises" /\ result = Ret(List(<<>>))

Priorities == { Str("High"), Str("Medium"), Str("Low") }

\* C8: every node of the forest generate_tasks returns, and every row
\* inserted from it, has a priority among High, Medium and Low
C8_PriorityAlwaysSet ==
    (entry = "process_meeting_transcript" /\ pc # "generate" /\ tasks # None) =>
        /\ \A p \in PathsOf(tasks.items) :
              LET n == NodeAt(tasks.items, p)
              IN  "priority" \in DOMAIN n.d /\ n.d["priority"] \in Priorities
        /\ \A i \in 1..Len(txn) : txn[i].priority \in Priorities
        /\ \A i \in 1..Len(committed) : committed[i].priority \in Priorities

\* the first Friday on or after a day
FirstFridayOnOrAfter(day) == CHOOSE f \in day..(day + 6) : Weekday(f) = 4

\* the deadline generate_tasks is to give a node of the AI output
ExpectedDeadline(node, now) ==
    IF "deadline" \notin DOMAIN node.d THEN None
    ELSE IF node.d["deadline"] = Str("This week")
    THEN Strftime(FirstFridayOnOrAfter(now))
    ELSE node.d["deadline"]

\* C9: the offset to Friday is (4 - weekday) mod 7: in 0..6, 0 exactly on a
\* Friday, 2 on a Wednesday; every node, at every depth, of the returned
\* forest has the date of the first Friday on or after the processing date
\* for the deadline "This week", null for a missing deadline, and its own
\* deadline otherwise
C9_ThisWeekIsNextFriday ==
    /\ days_until_friday(today) \in 0..6
    /\ days_until_friday(today) = 0 <=> Weekday(today) = 4
    /\ Weekday(today) = 2 => days_until_friday(today) = 2
    /\ (pc = "done" /\ HasTaskList(response) /\ result.v.items # <<>>) =>
          LET kept == SelectSeq(AiOutput(response).v.items, IsValidTask)
          IN  /\ PathsOf(result.v.items) = PathsOf(kept)
              /\ \A p \in PathsOf(kept) :
                    NodeAt(result.v.items, p).d["deadline"] =
                        ExpectedDeadline(NodeAt(kept, p), today)

C9_Witness ==
    /\ pc = "done" /\ Weekday(today) = 5
    /\ HasTaskList(response)
    /\ Len(result.v.items) = Len(AiOutput(response).v.items)
    /\ \E p \in PathsOf(result.v.items) :
          /\ Len(p) = 3
          /\ Get(NodeAt(AiOutput(response).v.items, p), "deadline", None)
                = Str("This week")
          /\ NodeAt(result.v.items, p).d["deadline"] = Iso(<<2025, 1, 3>>)

\* the fences the claim names
ClaimedForms == {"fenced", "tagged", "fenced_inline", "tagged_inline", "tagged_open"}

\* C10: a completion that wraps a JSON text in code fences gives the task
\* list the unfenced JSON text gives
C10_FencedSameAsUnfenced ==
    (pc = "done" /\ response.form \in ClaimedForms /\ response.json \in JsonTexts)
        => result = generate_tasks(Wrapped("bare", response.json, response.objects),
                                   today, MeetingId, portfolio)

\* the part of it that holds: an opening fence on a line of its own and a
\* closing fence
FencedOnOwnLinesSameAsUnfenced ==
    (pc = "done" /\ response.form \in {"fenced", "tagged", "tagged_trailing", "padded"}
     /\ response.json \in JsonTexts)
        => result = generate_tasks(Wrapped("bare", response.json, response.objects),
                                   today, MeetingId, portfolio)

IsExecute(e) == e.op = "execute"

\* the INSERT statements of the call so far, in the order they were executed
Inserts == SelectSeq(events, IsExecute)

\* path p comes before path q in the depth-first pre-order of a forest: p is
\* an ancestor of q, or p branches off to an earlier sibling
Before(p, q) ==
    \/ Len(p) < Len(q) /\ SubSeq(q, 1, Len(p)) = p
    \/ \E k \in 1..Min({Len(p), Len(q)}) :
          /\ SubSeq(p, 1, k - 1) = SubSeq(q, 1, k - 1)
          /\ p[k] < q[k]

\* C11: the INSERT statements run in the depth-first pre-order of the forest:
\* when a node is inserted, the nodes inserted before it are exactly the nodes
\* that come before it in pre-order (its ancestors, the subtrees of its
\* earlier siblings and of the earlier siblings of its ancestors), each insert
\* before it succeeded, and the identifier of every node whose subtasks are
\* being inserted has been read
C11_DepthFirstPreOrder ==
    /\ \A j \in 1..Len(Inserts) :
          /\ Inserts[j].node \in PathsOf(tasks.items)
          /\ { p \in PathsOf(tasks.items) : Before(p, Inserts[j].node) }
                = { Inserts[i].node : i \in 1..(j - 1) }
          /\ \A i \in 1..(j - 1) :
                Inserts[i].ok /\ Inserts[i].node \in DOMAIN idOf
    /\ \A f \in 1..Len(stack) :
          stack[f].path # <<>> =>
              /\ stack[f].path \in DOMAIN idOf
              /\ stack[f].id = PyInt(idOf[stack[f].path])

C11_Witness ==
    /\ entry = "direct" /\ pc = "done" /\ Happened("commit", TRUE)
    /\ [j \in 1..Len(Inserts) |-> Inserts[j].node]
          = << <<1>>, <<1, 1>>, <<1, 1, 1>>, <<1, 2>>, <<2>> >>

\* insert_tasks_to_db_direct was called
Called == \E i \in 1..Len(events) : events[i].op = "cursor"

\* the call of insert_tasks_to_db_direct is over
CallOver == Called /\ pc \in {"pmt_close", "done"}

\* no INSERT follows a commit, and when commit is invoked every node of the
\* forest has been inserted
CommitsLast ==
    \A i \in 1..Len(events) :
        events[i].op = "commit" =>
            /\ \A j \in (i + 1)..Len(events) : events[j].op # "execute"
            /\ { events[j].node : j \in { k \in 1..(i - 1) : events[k].op = "execute"
                                                            /\ events[k].ok } }
                  = PathsOf(tasks.items)

\* C12: a call of insert_tasks_to_db_direct is one transaction: no commit
\* between two inserts, commit only after every node is inserted, exactly one
\* of commit and rollback takes effect in the call, and the cursor is closed
\* when the call is over
C12_OneTransaction ==
    /\ CommitsLast
    /\ CallOver =>
          /\ Happened("commit", TRUE) # Happened("rollback", TRUE)
          /\ Happened("close", TRUE)
          /\ ~cursorOpen

\* the part of it that holds: commit comes last and after every insert, commit
\* and rollback never both take effect, and a call that obtained its cursor
\* invokes commit or rollback and closes the cursor
TransactionDiscipline ==
    /\ CommitsLast
    /\ ~(Happened("commit", TRUE) /\ Happened("rollback", TRUE))
    /\ ~cursorOpen \/ pc \in {"loop", "commit", "except", "finally"}
    /\ (CallOver /\ Happened("cursor", TRUE)) =>
          /\ Happened("commit", TRUE) \/ Happened("rollback", TRUE)
                \/ Happened("rollback", FALSE)
          /\ Happened("close", TRUE)

\* the file name the command that started recording r asks for
OwnFileName(r) == FileName(recordings[r].meeting_name, recordings[r].category)

\* C13: when recordings of two guilds overlap, the combined file and the
\* Meetings Records row that finished_callback produces for a recording carry
\* the meeting name and the portfolio id of the record_meet command that
\* started that recording
C13_OutputsCarryOwnCommand ==
    /\ \A i \in 1..Len(files) :
          recordings[files[i].recording].overlapped =>
              files[i].name = OwnFileName(files[i].recording)
    /\ \A i \in 1..Len(meetings_records) :
          LET r == meetings_records[i].recording
          IN  recordings[r].overlapped =>
                  /\ meetings_records[i].meeting_name = recordings[r].meeting_name
                  /\ meetings_records[i].portfolio_id = recordings[r].category

====
